---- MODULE Spec2Model ----
(***************************************************************************)
(* The run-inhibition hint store of cmd/cmdutil/runinhibit/inhibit.go.     *)
(*                                                                         *)
(* A hint file <InhibitDir>/<snapName>.lock holds the raw bytes of the     *)
(* current hint.  LockWithHint, Unlock and IsLocked are run by concurrent  *)
(* callers; every system call of a function is one atomic step.            *)
(***************************************************************************)
EXTENDS Integers, Sequences, FiniteSets, TLC

\* ------------------------------------------------------------------ bounds
\* Total number of calls made in one behaviour.
MaxCalls == 3
\* Total number of injected I/O failures in one behaviour.
MaxFaults == 1

\* ------------------------------------------------------------- parameters
\* Slots for concurrent calls (of processes or goroutines; each call opens
\* its own file).  A new call takes the lowest free slot; the slots outside
\* Writers run IsLocked only, so at most two writers run at a time.
Procs == {1, 2, 3}
Writers == {1, 2}
\* Snap names.
Resources == {"r1", "r2"}
\* inhibit.go:51  HintNotInhibited Hint = ""
HintNotInhibited == << >>
\* The non-empty hints callers pass; a hint is its sequence of bytes.
NonEmptyHints == {<<"a">>, <<"b", "c">>}
Hints == {HintNotInhibited} \cup NonEmptyHints

Nil == "nil"
None == <<"none">>

VARIABLES
    dirExists,  \* InhibitDir exists
    exists,     \* exists[r]: the hint file of r exists
    content,    \* content[r]: bytes of the hint file of r (empty when missing)
    lk,         \* lk[p]: flock mode held through p's open file: none, sh, ex
    pc,         \* pc[p]: position of caller p
    op,         \* op[p]: function p is running
    res,        \* res[p]: snapName argument
    arg,        \* arg[p]: hint argument
    size,       \* size[p]: fi.Size() in IsLocked
    nread,      \* nread[p]: n returned by f.Read in IsLocked
    retHint,    \* returned Hint
    retErr,     \* returned error
    ncalls,     \* calls made so far
    nfaults,    \* I/O failures injected so far
    faulted,    \* faulted[p]: an I/O failure was injected into p's call
    everSet,    \* everSet[r]: LockWithHint(r, h), h non-empty, was ever called
    settled,    \* settled[r]: what the last completed writers left, see Call
    expect,     \* expect[p]: settled[res[p]] over the whole of p's IsLocked
    valid,      \* valid[p]: stored hints at writer-quiescent instants of p's call
    ws,         \* ws[r]: hints of the successful LockWithHint calls of the burst
    dirty,      \* dirty[r]: the burst has an Unlock or a failed LockWithHint
    abs         \* abs[r]: state of the abstract machine of r, "" is Uninhibited

prog == <<dirExists, exists, content, lk, pc, op, res, arg, size, nread,
          retHint, retErr>>
ghost == <<ncalls, nfaults, faulted, everSet, settled, expect, valid, ws,
           dirty, abs>>
vars == <<prog, ghost>>

Store == <<dirExists, exists, content>>

\* --------------------------------------------------------------- helpers
Min(a, b) == IF a < b THEN a ELSE b

Prefix(s, k) == SubSeq(s, 1, k)

\* The call of p changes the hint of its resource when it gets to run.
Mutating(o, h) == o = "Unlock" \/ (o = "LockWithHint" /\ h # HintNotInhibited)

\* Callers, other than p, inside a mutating call on r.
OtherWriters(p, r) ==
    {q \in Procs \ {p} : pc[q] # "idle" /\ res[q] = r /\ Mutating(op[q], arg[q])}

\* Every returned call has been taken by its caller.
Quiet == \A q \in Procs : pc[q] # "done"

\* No caller is between the truncate and the write of one LockWithHint on r.
Stable(r) == \A q \in Procs : ~(pc[q] = "lwh_write" /\ res[q] = r)

\* ------------------------------------------------- the file-lock primitive
\* flock(LOCK_EX) through p's file is granted when no other open file of r
\* holds a lock of any mode.
CanLock(p, r) == \A q \in Procs \ {p} : ~(lk[q] # "none" /\ res[q] = r)

\* flock(LOCK_SH) through p's file is granted when no other open file of r
\* holds the exclusive lock.
CanReadLock(p, r) == \A q \in Procs \ {p} : ~(lk[q] = "ex" /\ res[q] = r)

\* osutil.NewFileLockWithMode(fname, 0644): open, creating the file when it is
\* missing; the directory is not created, a missing one gives ENOENT.
OpenFile(r, e) ==
    \/ /\ dirExists
       /\ e = Nil
       /\ exists' = [exists EXCEPT ![r] = TRUE]
    \/ /\ ~dirExists
       /\ e = "ENOENT"
       /\ UNCHANGED exists

\* f.WriteString(b) through a file just opened: the bytes go to offset 0 and
\* replace what is there, bytes beyond them stay.
WriteAt0(c, b) == b \o SubSeq(c, Len(b) + 1, Len(c))

\* f.Read(buf), len(buf) = n > 0, through a file just opened: the count read,
\* the bytes and the error.  os.File.Read gives (0, io.EOF) at end of file and
\* (k, nil) for a short count k > 0.
ReadAt0(c, n) ==
    IF Min(n, Len(c)) = 0
    THEN [n |-> 0, buf |-> << >>, err |-> "EOF"]
    ELSE [n |-> Min(n, Len(c)), buf |-> Prefix(c, Min(n, Len(c))), err |-> Nil]

\* ---------------------------------------------------------- bookkeeping
NoFault == UNCHANGED <<nfaults, faulted>>

Fault(p) ==
    /\ nfaults < MaxFaults
    /\ nfaults' = nfaults + 1
    /\ faulted' = [faulted EXCEPT ![p] = TRUE]

\* Stable in the state a step leads to.
StableNext(r) == \A q \in Procs : ~(pc'[q] = "lwh_write" /\ res'[q] = r)

\* valid[q] gathers, over the call of q, the stored hint at every instant at
\* which no writer is between its truncate and its write.
Observe ==
    valid' = [q \in Procs |->
                IF pc'[q] = "idle" THEN {}
                ELSE IF pc[q] = "done" \/ op'[q] # "IsLocked" THEN valid[q]
                ELSE (IF pc[q] = "idle" THEN {} ELSE valid[q])
                     \cup (IF StableNext(res'[q]) THEN {content'[res'[q]]} ELSE {})]

\* A step inside a call at which the call takes effect on the abstract
\* machine of its resource (its linearization point).
InternalLin ==
    /\ UNCHANGED <<ncalls, everSet, settled, expect, ws, dirty>>
    /\ Observe

\* A step of the abstract machine of r: to Inhibited(h), or to Uninhibited
\* for the empty h.
AbsMove(r, h) == abs' = [abs EXCEPT ![r] = h]

\* Any other step inside a call.
Internal ==
    /\ InternalLin
    /\ UNCHANGED abs

\* p leaves the function with (h, e); no deferred Close is pending.
ReturnNow(p, h, e) ==
    /\ pc' = [pc EXCEPT ![p] = "done"]
    /\ retHint' = [retHint EXCEPT ![p] = h]
    /\ retErr' = [retErr EXCEPT ![p] = e]

\* p executes return (h, e); the deferred flock.Close() runs next.
ReturnDeferred(p, h, e) ==
    /\ pc' = [pc EXCEPT ![p] = "close"]
    /\ retHint' = [retHint EXCEPT ![p] = h]
    /\ retErr' = [retErr EXCEPT ![p] = e]

Goto(p, l) ==
    /\ pc' = [pc EXCEPT ![p] = l]
    /\ UNCHANGED <<retHint, retErr>>

StartPc(o) ==
    CASE o = "LockWithHint" -> "lwh_check"
      [] o = "Unlock" -> "u_open"
      [] o = "IsLocked" -> "i_open"

\* ------------------------------------------------------------- the calls
\* A caller enters one of the three functions.  The bookkeeping: a writer
\* that starts alone on r opens a burst of writers; settled[r] follows a
\* writer that ran with no other writer of r at any time of its call.
Call(p) ==
    /\ pc[p] = "idle"
    /\ Quiet
    /\ \A q \in Procs : q < p => pc[q] # "idle"
    /\ ncalls < MaxCalls
    /\ \E o \in {"LockWithHint", "Unlock", "IsLocked"}, r \in Resources, h \in Hints :
        /\ o # "LockWithHint" => h = HintNotInhibited
        /\ ncalls = 0 => r = "r1"     \* the first snap used is named r1
        /\ p \notin Writers => o = "IsLocked"
        /\ pc' = [pc EXCEPT ![p] = StartPc(o)]
        /\ op' = [op EXCEPT ![p] = o]
        /\ res' = [res EXCEPT ![p] = r]
        /\ arg' = [arg EXCEPT ![p] = h]
        /\ ncalls' = ncalls + 1
        /\ everSet' = IF o = "LockWithHint" /\ h # HintNotInhibited
                      THEN [everSet EXCEPT ![r] = TRUE] ELSE everSet
        /\ settled' =
             IF ~Mutating(o, h) THEN settled
             ELSE IF OtherWriters(p, r) # {} THEN [settled EXCEPT ![r] = None]
             ELSE IF o = "LockWithHint" THEN [settled EXCEPT ![r] = <<"setting", p>>]
             ELSE IF settled[r][1] = "set" THEN [settled EXCEPT ![r] = <<"clearing", p>>]
             ELSE [settled EXCEPT ![r] = None]
        /\ expect' =
             IF o = "IsLocked"
             THEN [expect EXCEPT ![p] =
                     IF settled[r][1] \in {"set", "cleared"} THEN settled[r]
                     ELSE IF OtherWriters(p, r) = {} /\ ~dirty[r] /\ ws[r] # {}
                          THEN <<"oneof", ws[r]>>
                     ELSE None]
             ELSE IF Mutating(o, h)
             THEN [q \in Procs |-> IF res[q] = r THEN None ELSE expect[q]]
             ELSE expect
        /\ ws' = IF Mutating(o, h) /\ OtherWriters(p, r) = {}
                 THEN [ws EXCEPT ![r] = {}] ELSE ws
        /\ dirty' = IF ~Mutating(o, h) THEN dirty
                    ELSE IF OtherWriters(p, r) = {}
                         THEN [dirty EXCEPT ![r] = (o = "Unlock")]
                    ELSE [dirty EXCEPT ![r] = dirty[r] \/ o = "Unlock"]
    /\ UNCHANGED <<dirExists, exists, content, lk, size, nread, retHint, retErr,
                   abs>>
    /\ NoFault
    /\ Observe

\* The caller takes the result; the bookkeeping records what the call left.
Ack(p) ==
    /\ pc[p] = "done"
    /\ pc' = [pc EXCEPT ![p] = "idle"]
    /\ op' = [op EXCEPT ![p] = "none"]
    /\ res' = [res EXCEPT ![p] = "none"]
    /\ arg' = [arg EXCEPT ![p] = HintNotInhibited]
    /\ size' = [size EXCEPT ![p] = 0]
    /\ nread' = [nread EXCEPT ![p] = 0]
    /\ retHint' = [retHint EXCEPT ![p] = HintNotInhibited]
    /\ retErr' = [retErr EXCEPT ![p] = Nil]
    /\ faulted' = [faulted EXCEPT ![p] = FALSE]
    /\ expect' = [expect EXCEPT ![p] = None]
    /\ LET r == res[p]
           ok == retErr[p] = Nil
       IN IF ~Mutating(op[p], arg[p])
          THEN UNCHANGED <<settled, ws, dirty>>
          ELSE /\ settled' =
                    IF ok /\ settled[r] = <<"setting", p>>
                    THEN [settled EXCEPT ![r] = <<"set", arg[p]>>]
                    ELSE IF ok /\ settled[r] = <<"clearing", p>>
                    THEN [settled EXCEPT ![r] = <<"cleared">>]
                    ELSE [settled EXCEPT ![r] = None]
               /\ ws' = IF ok /\ op[p] = "LockWithHint"
                        THEN [ws EXCEPT ![r] = ws[r] \cup {arg[p]}] ELSE ws
               /\ dirty' = IF ok THEN dirty ELSE [dirty EXCEPT ![r] = TRUE]
    /\ UNCHANGED <<dirExists, exists, content, lk, ncalls, nfaults, everSet, abs>>
    /\ Observe

\* ---------------------------------------------------------- LockWithHint
\* LwhCheck without the test of the hint's length.
LwhCheck_NoCheck(p) ==
    /\ pc[p] = "lwh_check"
    /\ Quiet
    /\ Goto(p, "lwh_mkdir")
    /\ UNCHANGED <<dirExists, exists, content, lk, op, res, arg, size, nread>>
    /\ NoFault
    /\ Internal

\* if len(hint) == 0 { return fmt.Errorf("hint cannot be empty") }
LwhCheck(p) ==
    /\ pc[p] = "lwh_check"
    /\ Quiet
    /\ IF Len(arg[p]) = 0
       THEN ReturnNow(p, HintNotInhibited, "EINVAL")
       ELSE Goto(p, "lwh_mkdir")
    /\ UNCHANGED <<dirExists, exists, content, lk, op, res, arg, size, nread>>
    /\ NoFault
    /\ Internal

\* os.MkdirAll(InhibitDir, 0755)
LwhMkdir(p) ==
    /\ pc[p] = "lwh_mkdir"
    /\ Quiet
    /\ \/ /\ dirExists' = TRUE
          /\ Goto(p, "lwh_open")
          /\ NoFault
       \/ /\ Fault(p)
          /\ UNCHANGED dirExists
          /\ ReturnNow(p, HintNotInhibited, "EROFS")
    /\ UNCHANGED <<exists, content, lk, op, res, arg, size, nread>>
    /\ Internal

\* LwhOpen that truncates the file as it opens it, before the lock is taken.
LwhOpen_Trunc(p) ==
    /\ pc[p] = "lwh_open"
    /\ Quiet
    /\ \/ /\ \E e \in {Nil, "ENOENT"} :
               /\ OpenFile(res[p], e)
               /\ IF e = Nil
                  THEN /\ Goto(p, "lwh_lock")
                       /\ content' = [content EXCEPT ![res[p]] = << >>]
                  ELSE /\ ReturnNow(p, HintNotInhibited, e)
                       /\ UNCHANGED content
          /\ NoFault
       \/ /\ Fault(p)
          /\ UNCHANGED <<exists, content>>
          /\ ReturnNow(p, HintNotInhibited, "EACCES")
    /\ UNCHANGED <<dirExists, lk, op, res, arg, size, nread>>
    /\ Internal

\* flock, err := openHintFile(snapName); defer flock.Close()
LwhOpen(p) ==
    /\ pc[p] = "lwh_open"
    /\ Quiet
    /\ \/ /\ \E e \in {Nil, "ENOENT"} :
               /\ OpenFile(res[p], e)
               /\ IF e = Nil THEN Goto(p, "lwh_lock")
                  ELSE ReturnNow(p, HintNotInhibited, e)
          /\ NoFault
       \/ /\ Fault(p)
          /\ UNCHANGED exists
          /\ ReturnNow(p, HintNotInhibited, "EACCES")
    /\ UNCHANGED <<dirExists, content, lk, op, res, arg, size, nread>>
    /\ Internal

\* LwhLock that goes on without taking the lock.
LwhLock_NoLock(p) ==
    /\ pc[p] = "lwh_lock"
    /\ Quiet
    /\ Goto(p, "lwh_trunc")
    /\ UNCHANGED <<dirExists, exists, content, lk, op, res, arg, size, nread>>
    /\ NoFault
    /\ Internal

\* flock.Lock(): blocks until the exclusive lock is granted, or fails.
LwhLock(p) ==
    /\ pc[p] = "lwh_lock"
    /\ Quiet
    /\ \/ /\ CanLock(p, res[p])
          /\ lk' = [lk EXCEPT ![p] = "ex"]
          /\ Goto(p, "lwh_trunc")
          /\ NoFault
       \/ /\ Fault(p)
          /\ UNCHANGED lk
          /\ ReturnDeferred(p, HintNotInhibited, "EINTR")
    /\ UNCHANGED <<dirExists, exists, content, op, res, arg, size, nread>>
    /\ Internal

\* LwhTrunc in a function that writes without truncating first.
LwhTrunc_Skip(p) ==
    /\ pc[p] = "lwh_trunc"
    /\ Quiet
    /\ Goto(p, "lwh_write")
    /\ UNCHANGED <<dirExists, exists, content, lk, op, res, arg, size, nread>>
    /\ NoFault
    /\ Internal

\* f.Truncate(0)
LwhTrunc(p) ==
    /\ pc[p] = "lwh_trunc"
    /\ Quiet
    /\ \/ /\ content' = [content EXCEPT ![res[p]] = << >>]
          /\ Goto(p, "lwh_write")
          /\ NoFault
       \/ /\ Fault(p)
          /\ UNCHANGED content
          /\ ReturnDeferred(p, HintNotInhibited, "EIO")
    /\ UNCHANGED <<dirExists, exists, lk, op, res, arg, size, nread>>
    /\ Internal

\* LwhWrite in a function that closes the lock file on its success path only.
LwhWrite_NoDefer(p) ==
    /\ pc[p] = "lwh_write"
    /\ Quiet
    /\ \/ /\ content' = [content EXCEPT ![res[p]] = WriteAt0(@, arg[p])]
          /\ AbsMove(res[p], arg[p])
          /\ ReturnDeferred(p, HintNotInhibited, Nil)
          /\ NoFault
       \/ /\ Fault(p)
          /\ \E k \in 0 .. Len(arg[p]) - 1 :
               content' = [content EXCEPT ![res[p]] = WriteAt0(@, Prefix(arg[p], k))]
          /\ AbsMove(res[p], content'[res[p]])
          /\ ReturnNow(p, HintNotInhibited, "ENOSPC")
    /\ UNCHANGED <<dirExists, exists, lk, op, res, arg, size, nread>>
    /\ InternalLin

\* LwhWrite through a file whose name leaves out the snap name: every
\* caller writes the one file of r1.
LwhWrite_WrongFile(p) ==
    /\ pc[p] = "lwh_write"
    /\ Quiet
    /\ \/ /\ content' = [content EXCEPT !["r1"] = WriteAt0(@, arg[p])]
          /\ AbsMove("r1", arg[p])
          /\ ReturnDeferred(p, HintNotInhibited, Nil)
          /\ NoFault
       \/ /\ Fault(p)
          /\ \E k \in 0 .. Len(arg[p]) - 1 :
               content' = [content EXCEPT !["r1"] = WriteAt0(@, Prefix(arg[p], k))]
          /\ AbsMove("r1", content'["r1"])
          /\ ReturnDeferred(p, HintNotInhibited, "ENOSPC")
    /\ UNCHANGED <<dirExists, exists, lk, op, res, arg, size, nread>>
    /\ InternalLin

\* _, err = f.WriteString(string(hint)); return err
\* A failed write may have written any proper prefix of the hint.
LwhWrite(p) ==
    /\ pc[p] = "lwh_write"
    /\ Quiet
    /\ \/ /\ content' = [content EXCEPT ![res[p]] = WriteAt0(@, arg[p])]
          /\ AbsMove(res[p], arg[p])
          /\ ReturnDeferred(p, HintNotInhibited, Nil)
          /\ NoFault
       \/ /\ Fault(p)
          /\ \E k \in 0 .. Len(arg[p]) - 1 :
               content' = [content EXCEPT ![res[p]] = WriteAt0(@, Prefix(arg[p], k))]
          /\ AbsMove(res[p], content'[res[p]])
          /\ ReturnDeferred(p, HintNotInhibited, "ENOSPC")
    /\ UNCHANGED <<dirExists, exists, lk, op, res, arg, size, nread>>
    /\ InternalLin

\* LwhClose through a file whose Close leaves the lock held.
LwhClose_Keep(p) ==
    /\ pc[p] = "close"
    /\ Quiet
    /\ op[p] = "LockWithHint"
    /\ pc' = [pc EXCEPT ![p] = "done"]
    /\ UNCHANGED <<dirExists, exists, content, lk, op, res, arg, size, nread,
                   retHint, retErr>>
    /\ NoFault
    /\ Internal

\* The deferred flock.Close(): releases the lock held through the file.
LwhClose(p) ==
    /\ pc[p] = "close"
    /\ Quiet
    /\ op[p] = "LockWithHint"
    /\ lk' = [lk EXCEPT ![p] = "none"]
    /\ pc' = [pc EXCEPT ![p] = "done"]
    /\ UNCHANGED <<dirExists, exists, content, op, res, arg, size, nread,
                   retHint, retErr>>
    /\ NoFault
    /\ Internal

\* ---------------------------------------------------------------- Unlock
\* UnlockOpen without the os.IsNotExist case: every open error is returned.
UnlockOpen_NoNotExist(p) ==
    /\ pc[p] = "u_open"
    /\ Quiet
    /\ \/ /\ \E e \in {Nil, "ENOENT"} :
               /\ OpenFile(res[p], e)
               /\ IF e = Nil THEN Goto(p, "u_lock")
                  ELSE ReturnNow(p, HintNotInhibited, e)
          /\ NoFault
       \/ /\ Fault(p)
          /\ UNCHANGED exists
          /\ ReturnNow(p, HintNotInhibited, "EACCES")
    /\ UNCHANGED <<dirExists, content, lk, op, res, arg, size, nread>>
    /\ Internal

\* flock, err := openHintFile(snapName)
\* if os.IsNotExist(err) { return nil }; if err != nil { return err }
UnlockOpen(p) ==
    /\ pc[p] = "u_open"
    /\ Quiet
    /\ \/ /\ \E e \in {Nil, "ENOENT"} :
               /\ OpenFile(res[p], e)
               /\ IF e = Nil THEN Goto(p, "u_lock")
                  ELSE ReturnNow(p, HintNotInhibited, Nil)
          /\ NoFault
       \/ /\ Fault(p)
          /\ UNCHANGED exists
          /\ ReturnNow(p, HintNotInhibited, "EACCES")
    /\ UNCHANGED <<dirExists, content, lk, op, res, arg, size, nread>>
    /\ Internal

\* UnlockLock that goes on without taking the lock.
UnlockLock_NoLock(p) ==
    /\ pc[p] = "u_lock"
    /\ Quiet
    /\ Goto(p, "u_trunc")
    /\ UNCHANGED <<dirExists, exists, content, lk, op, res, arg, size, nread>>
    /\ NoFault
    /\ Internal

\* flock.Lock()
UnlockLock(p) ==
    /\ pc[p] = "u_lock"
    /\ Quiet
    /\ \/ /\ CanLock(p, res[p])
          /\ lk' = [lk EXCEPT ![p] = "ex"]
          /\ Goto(p, "u_trunc")
          /\ NoFault
       \/ /\ Fault(p)
          /\ UNCHANGED lk
          /\ ReturnDeferred(p, HintNotInhibited, "EINTR")
    /\ UNCHANGED <<dirExists, exists, content, op, res, arg, size, nread>>
    /\ Internal

\* UnlockTrunc that returns without truncating the file.
UnlockTrunc_Skip(p) ==
    /\ pc[p] = "u_trunc"
    /\ Quiet
    /\ ReturnDeferred(p, HintNotInhibited, Nil)
    /\ AbsMove(res[p], HintNotInhibited)
    /\ UNCHANGED <<dirExists, exists, content, lk, op, res, arg, size, nread>>
    /\ NoFault
    /\ InternalLin

\* UnlockTrunc that removes the hint file instead of truncating it.
UnlockTrunc_Remove(p) ==
    /\ pc[p] = "u_trunc"
    /\ Quiet
    /\ \/ /\ content' = [content EXCEPT ![res[p]] = << >>]
          /\ exists' = [exists EXCEPT ![res[p]] = FALSE]
          /\ AbsMove(res[p], HintNotInhibited)
          /\ ReturnDeferred(p, HintNotInhibited, Nil)
          /\ NoFault
       \/ /\ Fault(p)
          /\ UNCHANGED <<content, exists, abs>>
          /\ ReturnDeferred(p, HintNotInhibited, "EIO")
    /\ UNCHANGED <<dirExists, lk, op, res, arg, size, nread>>
    /\ InternalLin

\* return f.Truncate(0)
UnlockTrunc(p) ==
    /\ pc[p] = "u_trunc"
    /\ Quiet
    /\ \/ /\ content' = [content EXCEPT ![res[p]] = << >>]
          /\ AbsMove(res[p], HintNotInhibited)
          /\ ReturnDeferred(p, HintNotInhibited, Nil)
          /\ NoFault
       \/ /\ Fault(p)
          /\ UNCHANGED <<content, abs>>
          /\ ReturnDeferred(p, HintNotInhibited, "EIO")
    /\ UNCHANGED <<dirExists, exists, lk, op, res, arg, size, nread>>
    /\ InternalLin

\* The deferred flock.Close()
UnlockClose(p) ==
    /\ pc[p] = "close"
    /\ Quiet
    /\ op[p] = "Unlock"
    /\ lk' = [lk EXCEPT ![p] = "none"]
    /\ pc' = [pc EXCEPT ![p] = "done"]
    /\ UNCHANGED <<dirExists, exists, content, op, res, arg, size, nread,
                   retHint, retErr>>
    /\ NoFault
    /\ Internal

\* -------------------------------------------------------------- IsLocked
\* IsLockedOpen without the os.IsNotExist case: every open error is returned.
IsLockedOpen_NoNotExist(p) ==
    /\ pc[p] = "i_open"
    /\ Quiet
    /\ \/ /\ \E e \in {Nil, "ENOENT"} :
               /\ OpenFile(res[p], e)
               /\ IF e = Nil THEN Goto(p, "i_rlock")
                  ELSE ReturnNow(p, HintNotInhibited, e)
          /\ NoFault
       \/ /\ Fault(p)
          /\ UNCHANGED exists
          /\ ReturnNow(p, HintNotInhibited, "EACCES")
    /\ UNCHANGED <<dirExists, content, lk, op, res, arg, size, nread>>
    /\ Internal

\* flock, err := openHintFile(snapName)
\* if os.IsNotExist(err) { return "", nil }; if err != nil { return "", err }
IsLockedOpen(p) ==
    /\ pc[p] = "i_open"
    /\ Quiet
    /\ \/ /\ \E e \in {Nil, "ENOENT"} :
               /\ OpenFile(res[p], e)
               /\ IF e = Nil THEN Goto(p, "i_rlock")
                  ELSE ReturnNow(p, HintNotInhibited, Nil)
          /\ NoFault
       \/ /\ Fault(p)
          /\ UNCHANGED exists
          /\ ReturnNow(p, HintNotInhibited, "EACCES")
    /\ UNCHANGED <<dirExists, content, lk, op, res, arg, size, nread>>
    /\ Internal

\* IsLockedReadLock that goes on without taking the shared lock.
IsLockedReadLock_NoLock(p) ==
    /\ pc[p] = "i_rlock"
    /\ Quiet
    /\ Goto(p, "i_stat")
    /\ UNCHANGED <<dirExists, exists, content, lk, op, res, arg, size, nread>>
    /\ NoFault
    /\ Internal

\* IsLockedReadLock that takes the exclusive lock, as the writers do.
IsLockedReadLock_Exclusive(p) ==
    /\ pc[p] = "i_rlock"
    /\ Quiet
    /\ \/ /\ CanLock(p, res[p])
          /\ lk' = [lk EXCEPT ![p] = "ex"]
          /\ Goto(p, "i_stat")
          /\ NoFault
       \/ /\ Fault(p)
          /\ UNCHANGED lk
          /\ ReturnDeferred(p, HintNotInhibited, "EINTR")
    /\ UNCHANGED <<dirExists, exists, content, op, res, arg, size, nread>>
    /\ Internal

\* flock.ReadLock(): blocks until the shared lock is granted, or fails.
IsLockedReadLock(p) ==
    /\ pc[p] = "i_rlock"
    /\ Quiet
    /\ \/ /\ CanReadLock(p, res[p])
          /\ lk' = [lk EXCEPT ![p] = "sh"]
          /\ Goto(p, "i_stat")
          /\ NoFault
       \/ /\ Fault(p)
          /\ UNCHANGED lk
          /\ ReturnDeferred(p, HintNotInhibited, "EINTR")
    /\ UNCHANGED <<dirExists, exists, content, op, res, arg, size, nread>>
    /\ Internal

\* fi, err := f.Stat(); if err != nil { return "", err }
\* if fi.Size() == 0 { return "", nil }
IsLockedStat(p) ==
    /\ pc[p] = "i_stat"
    /\ Quiet
    /\ \/ /\ size' = [size EXCEPT ![p] = Len(content[res[p]])]
          /\ IF Len(content[res[p]]) = 0
             THEN ReturnDeferred(p, HintNotInhibited, Nil)
             ELSE Goto(p, "i_read")
          /\ NoFault
       \/ /\ Fault(p)
          /\ UNCHANGED size
          /\ ReturnDeferred(p, HintNotInhibited, "ESTALE")
    /\ UNCHANGED <<dirExists, exists, content, lk, op, res, arg, nread>>
    /\ Internal

\* IsLockedResult with the test of the count inverted.
IsLockedResult_Inverted(p, n, b, e) ==
    IF n # size[p]
    THEN ReturnDeferred(p, b, Nil)
    ELSE ReturnDeferred(p, HintNotInhibited, e)

\* The return after f.Read gave n bytes b and the error e into a buffer of
\* size[p] bytes:
\* if n == len(buf) { return Hint(string(buf)), nil }; return "", err
IsLockedResult(p, n, b, e) ==
    IF n = size[p]
    THEN ReturnDeferred(p, b, Nil)
    ELSE ReturnDeferred(p, HintNotInhibited, e)

\* buf := make([]byte, fi.Size()); n, err := f.Read(buf)
\* A failed read gives fewer bytes than asked and the error.
IsLockedRead(p) ==
    /\ pc[p] = "i_read"
    /\ Quiet
    /\ \/ /\ LET rd == ReadAt0(content[res[p]], size[p])
             IN /\ nread' = [nread EXCEPT ![p] = rd.n]
                /\ IsLockedResult(p, rd.n, rd.buf, rd.err)
          /\ NoFault
       \/ /\ Fault(p)
          /\ \E k \in 0 .. Min(size[p], Len(content[res[p]])) - 1 :
               /\ nread' = [nread EXCEPT ![p] = k]
               /\ IsLockedResult(p, k, Prefix(content[res[p]], k), "EIO")
    /\ UNCHANGED <<dirExists, exists, content, lk, op, res, arg, size>>
    /\ Internal

\* The deferred flock.Close()
IsLockedClose(p) ==
    /\ pc[p] = "close"
    /\ Quiet
    /\ op[p] = "IsLocked"
    /\ lk' = [lk EXCEPT ![p] = "none"]
    /\ pc' = [pc EXCEPT ![p] = "done"]
    /\ UNCHANGED <<dirExists, exists, content, op, res, arg, size, nread,
                   retHint, retErr>>
    /\ NoFault
    /\ Internal

\* ------------------------------------------------------- the environment
\* A process that does not take the lock shortens the hint file of r.
External(r) ==
    /\ exists[r]
    /\ \E k \in 0 .. Len(content[r]) - 1 :
         content' = [content EXCEPT ![r] = Prefix(@, k)]
    /\ AbsMove(r, content'[r])
    /\ UNCHANGED <<dirExists, exists, lk, pc, op, res, arg, size, nread,
                   retHint, retErr>>
    /\ NoFault
    /\ InternalLin

\* ---------------------------------------------------------- specification
Init ==
    /\ dirExists \in BOOLEAN
    /\ exists = [r \in Resources |-> FALSE]
    /\ content = [r \in Resources |-> << >>]
    /\ lk = [p \in Procs |-> "none"]
    /\ pc = [p \in Procs |-> "idle"]
    /\ op = [p \in Procs |-> "none"]
    /\ res = [p \in Procs |-> "none"]
    /\ arg = [p \in Procs |-> HintNotInhibited]
    /\ size = [p \in Procs |-> 0]
    /\ nread = [p \in Procs |-> 0]
    /\ retHint = [p \in Procs |-> HintNotInhibited]
    /\ retErr = [p \in Procs |-> Nil]
    /\ ncalls = 0
    /\ nfaults = 0
    /\ faulted = [p \in Procs |-> FALSE]
    /\ everSet = [r \in Resources |-> FALSE]
    /\ settled = [r \in Resources |-> None]
    /\ expect = [p \in Procs |-> None]
    /\ valid = [p \in Procs |-> {}]
    /\ ws = [r \in Resources |-> {}]
    /\ dirty = [r \in Resources |-> FALSE]
    /\ abs = [r \in Resources |-> HintNotInhibited]

Step(p) ==
    \/ Call(p)
    \/ LwhCheck(p)
    \/ LwhMkdir(p)
    \/ LwhOpen(p)
    \/ LwhLock(p)
    \/ LwhTrunc(p)
    \/ LwhWrite(p)
    \/ LwhClose(p)
    \/ UnlockOpen(p)
    \/ UnlockLock(p)
    \/ UnlockTrunc(p)
    \/ UnlockClose(p)
    \/ IsLockedOpen(p)
    \/ IsLockedReadLock(p)
    \/ IsLockedStat(p)
    \/ IsLockedRead(p)
    \/ IsLockedClose(p)
    \/ Ack(p)

\* Callers that all go through the lock protocol.
Next == \E p \in Procs : Step(p)

Spec == Init /\ [][Next]_vars

\* The same callers beside a process that modifies hint files without locking.
NextExt ==
    \/ \E p \in Procs : Step(p)
    \/ \E r \in Resources : External(r)

SpecExt == Init /\ [][NextExt]_vars

\* A caller inside a call goes on running: a blocking flock returns once the
\* lock can be granted, and every other statement runs to its end.
Proceed(p) == pc[p] # "idle" /\ Step(p)

Fairness == \A p \in Procs : WF_vars(Proceed(p))

SpecFair == Spec /\ Fairness

\* ----------------------------------------------------------------- claims
\* An IsLocked call of p has returned.
Read(p) == pc[p] = "done" /\ op[p] = "IsLocked"

\* The step is one of caller p.
StepOf(p) == pc'[p] # pc[p]

\* C1 (round trip): an IsLocked(r) that runs, wholly after a LockWithHint(r, h)
\* returned nil and with no other writer of r since that call began, returns
\* exactly (h, nil), unless an I/O failure is injected into the IsLocked call.
C1_RoundTrip ==
    \A p \in Procs :
        (Read(p) /\ expect[p][1] = "set" /\ ~faulted[p])
            => (retHint[p] = expect[p][2] /\ retErr[p] = Nil)

C1_Witness ==
    \E p \in Procs :
        /\ Read(p) /\ expect[p] = <<"set", <<"b", "c">>>> /\ ~faulted[p]
        /\ retHint[p] = <<"b", "c">>

\* C2 (reader consistency): the hint a successful IsLocked(r) returns is the
\* stored hint of r at an instant of the call at which no LockWithHint on r
\* was between its truncate and its write: never the empty intermediate
\* state, never a partial or mixed string.
C2_ReaderConsistency ==
    \A p \in Procs :
        (Read(p) /\ retErr[p] = Nil) => retHint[p] \in valid[p]

\* A reader that ran while one hint was overwritten by another.
C2_Witness ==
    \E p \in Procs :
        /\ Read(p) /\ retErr[p] = Nil
        /\ valid[p] = NonEmptyHints
        /\ retHint[p] = <<"a">>

\* C3 (writer mutual exclusion): after a burst of overlapping LockWithHint
\* calls on r that all returned nil (no Unlock among them), the stored hint
\* is the hint of one of them, and an IsLocked that runs after the burst
\* returns one of their hints and no error.
C3_WriterExclusion ==
    /\ \A r \in Resources :
          (OtherWriters(0, r) = {} /\ ~dirty[r] /\ ws[r] # {})
              => content[r] \in ws[r]
    /\ \A p \in Procs :
          (Read(p) /\ expect[p][1] = "oneof" /\ ~faulted[p])
              => (retErr[p] = Nil /\ retHint[p] \in expect[p][2])

C3_Witness ==
    \E p \in Procs :
        /\ Read(p) /\ ~faulted[p]
        /\ expect[p] = <<"oneof", NonEmptyHints>>

\* C4 (short read is an error): an IsLocked whose read gave a count other
\* than the size stat gave returns a non-nil error.
C4_ShortReadIsError ==
    \A p \in Procs :
        (op[p] = "IsLocked" /\ pc[p] \in {"close", "done"}
            /\ size[p] > 0 /\ nread[p] # size[p])
            => retErr[p] # Nil

\* C5 (locks are released): a call that has returned holds no lock, also
\* when it returned an error.
C5_LocksReleased ==
    \A p \in Procs : pc[p] \in {"idle", "done"} => lk[p] = "none"

\* A LockWithHint that took the lock and failed at the write has returned.
C5_Witness ==
    \E p \in Procs :
        /\ pc[p] = "done" /\ op[p] = "LockWithHint" /\ retErr[p] = "ENOSPC"
        /\ lk[p] = "none"

\* C6 (clear semantics): an IsLocked(r) that runs wholly after an Unlock(r)
\* returned nil, that Unlock having run wholly after a LockWithHint(r, h)
\* returned nil, with no other writer of r in between or afterwards, returns
\* (NotInhibited, nil), unless an I/O failure is injected into the IsLocked.
C6_ClearSemantics ==
    \A p \in Procs :
        (Read(p) /\ expect[p] = <<"cleared">> /\ ~faulted[p])
            => (retHint[p] = HintNotInhibited /\ retErr[p] = Nil)

C6_Witness ==
    \E p \in Procs :
        /\ Read(p) /\ expect[p] = <<"cleared">> /\ ~faulted[p]
        /\ retErr[p] = Nil

\* C7 (empty hint): the step of LockWithHint(r, "") returns the invalid
\* argument error at once and changes neither the directory, nor the files,
\* nor their contents, nor the locks.
C7_EmptyHintRejected ==
    [][\A p \in Procs :
          (pc[p] = "lwh_check" /\ arg[p] = HintNotInhibited /\ StepOf(p))
              => /\ pc'[p] = "done"
                 /\ retErr'[p] = "EINVAL"
                 /\ Store' = Store
                 /\ lk' = lk]_vars

\* The call was rejected beside a stored hint.
C7_Witness ==
    \E p \in Procs :
        /\ pc[p] = "done" /\ op[p] = "LockWithHint"
        /\ arg[p] = HintNotInhibited /\ retErr[p] = "EINVAL"
        /\ content[res[p]] = <<"b", "c">>

\* C8 (clear of a never-set resource): on a resource no LockWithHint was ever
\* called for, Unlock and IsLocked return (NotInhibited, nil) with or without
\* the directory, unless an I/O failure is injected into the call; and
\* neither ever returns the missing-file error.
C8_ClearNeverSet ==
    \A p \in Procs :
        (pc[p] = "done" /\ op[p] \in {"Unlock", "IsLocked"})
            => /\ retErr[p] # "ENOENT"
               /\ (~everSet[res[p]] /\ ~faulted[p])
                    => (retErr[p] = Nil /\ retHint[p] = HintNotInhibited)

\* Unlock of a never-set resource returned nil with no directory.
C8_Witness ==
    \E p \in Procs :
        /\ pc[p] = "done" /\ op[p] = "Unlock" /\ ~faulted[p]
        /\ ~everSet[res[p]] /\ ~dirExists
        /\ retErr[p] = Nil

\* C9 (Unlock is a no-op without the file): the open step of an Unlock(r)
\* that finds no hint file of r returns nil at once and leaves the store as
\* it is, unless an I/O failure is injected.
C9_UnlockNoopWithoutFile ==
    [][\A p \in Procs :
          (pc[p] = "u_open" /\ ~exists[res[p]] /\ StepOf(p) /\ ~faulted'[p])
              => /\ pc'[p] = "done"
                 /\ retErr'[p] = Nil
                 /\ Store' = Store]_vars

\* C10 (IsLocked does not mutate): no step of an IsLocked call changes the
\* directory, the set of hint files or their contents.
C10_IsLockedNoMutation ==
    [][\A p \in Procs :
          (op[p] = "IsLocked" /\ StepOf(p)) => Store' = Store]_vars

\* C11 (readers do not block each other): an IsLocked(r) that asks for its
\* lock while every lock held on the file of r is held by other IsLocked
\* calls is granted it at once, and a reader that returns while another
\* reader still holds the shared lock returns the stored hint.
C11_ReadersDoNotBlock ==
    /\ \A p \in Procs :
          (/\ pc[p] = "i_rlock"
           /\ Quiet
           /\ \A q \in Procs \ {p} :
                 (lk[q] # "none" /\ res[q] = res[p]) => op[q] = "IsLocked")
              => ENABLED (IsLockedReadLock(p) /\ lk'[p] # "none")
    /\ \A p \in Procs :
          (/\ Read(p) /\ expect[p][1] = "set" /\ ~faulted[p]
           /\ \E q \in Procs \ {p} : lk[q] = "sh" /\ res[q] = res[p])
              => (retHint[p] = expect[p][2] /\ retErr[p] = Nil)

\* Two readers hold the shared lock on a set resource at the same time.
C11_Witness ==
    \E p, q \in Procs :
        /\ p # q /\ res[p] = res[q]
        /\ lk[p] = "sh" /\ lk[q] = "sh"
        /\ content[res[p]] = <<"b", "c">>

\* C12 (a missing file is an empty file): the result of every call into
\* which no I/O failure is injected follows from its arguments and the
\* stored bytes alone, whether or not the hint file or the directory exists:
\* IsLocked returns a stored hint and no error, and (NotInhibited, nil) when
\* the file was missing or empty all along; Unlock returns nil; LockWithHint
\* returns nil for a non-empty hint.
C12_MissingIsEmpty ==
    \A p \in Procs :
        (pc[p] = "done" /\ ~faulted[p])
            => /\ op[p] = "IsLocked"
                    => /\ retErr[p] = Nil
                       /\ retHint[p] \in valid[p]
                       /\ valid[p] = {HintNotInhibited}
                             => retHint[p] = HintNotInhibited
               /\ op[p] = "Unlock" => retErr[p] = Nil
               /\ op[p] = "LockWithHint"
                    => retErr[p] = IF arg[p] = HintNotInhibited
                                   THEN "EINVAL" ELSE Nil

\* IsLocked has returned (NotInhibited, nil) for a file that does not exist.
C12_Witness ==
    \E p \in Procs :
        /\ Read(p) /\ ~faulted[p]
        /\ ~exists[res[p]]
        /\ retHint[p] = HintNotInhibited /\ retErr[p] = Nil

\* C13 (hint files are never deleted): a hint file that exists, exists after
\* every step of every call.
C13_NeverDeleted ==
    [][\A r \in Resources : exists[r] => exists'[r]]_vars

\* An Unlock of a set resource has returned nil and left the empty file.
C13_Witness ==
    \E p \in Procs :
        /\ pc[p] = "done" /\ op[p] = "Unlock" /\ retErr[p] = Nil
        /\ everSet[res[p]] /\ settled[res[p]] = <<"clearing", p>>
        /\ exists[res[p]] /\ content[res[p]] = HintNotInhibited

\* C14 (linearizable two-state machine): abs[r] starts Uninhibited and moves
\* only at one step inside a writer's call (the write of LockWithHint(h), to
\* Inhibited(h); the truncate of Unlock, to Uninhibited).  The file holds the
\* abstract state whenever no LockWithHint is between truncate and write; the
\* step that decides the result of a successful IsLocked returns the abstract
\* state of that instant; an Unlock that returns nil without truncating does
\* so in the state Uninhibited.  (A writer that fails after its truncate
\* moves the machine to what it left in the file.)
C14_Linearizable ==
    /\ [](\A r \in Resources : Stable(r) => content[r] = abs[r])
    /\ [][\A p \in Procs : StepOf(p) =>
            /\ (/\ op[p] = "IsLocked"
                /\ pc[p] \in {"i_open", "i_stat", "i_read"}
                /\ pc'[p] \in {"close", "done"}
                /\ retErr'[p] = Nil)
                   => (retHint'[p] = abs[res[p]] /\ abs' = abs)
            /\ (pc[p] = "u_open" /\ pc'[p] = "done" /\ retErr'[p] = Nil)
                   => (abs[res[p]] = HintNotInhibited /\ abs' = abs)
            /\ (pc[p] = "u_trunc" /\ retErr'[p] = Nil)
                   => abs'[res[p]] = HintNotInhibited
            /\ (pc[p] = "lwh_write" /\ retErr'[p] = Nil)
                   => abs'[res[p]] = arg[p]
            /\ abs' # abs => pc[p] \in {"lwh_write", "u_trunc"}]_vars

\* A reader waits while a writer is between truncate and write: the file is
\* empty, the abstract state is still the hint being replaced.
C14_Witness ==
    \E p, q \in Procs :
        /\ pc[p] = "lwh_write" /\ arg[p] = <<"a">>
        /\ abs[res[p]] = <<"b", "c">> /\ content[res[p]] = << >>
        /\ pc[q] = "i_rlock" /\ res[q] = res[p]

\* C15 (locking discipline): a caller about to truncate or write holds the
\* exclusive lock, a caller about to stat or read holds the shared lock, and
\* the holder of the exclusive lock on a file is the only holder of a lock
\* on it.
C15_LockingDiscipline ==
    /\ \A p \in Procs :
          /\ pc[p] \in {"lwh_trunc", "lwh_write", "u_trunc"} => lk[p] = "ex"
          /\ pc[p] \in {"i_stat", "i_read"} => lk[p] = "sh"
    /\ \A p, q \in Procs :
          (p # q /\ lk[p] = "ex" /\ lk[q] # "none") => res[p] # res[q]

\* An Unlock holds the exclusive lock before its truncate while a reader and
\* no one else waits for the file.
C15_Witness ==
    \E p, q \in Procs :
        /\ pc[p] = "u_trunc" /\ lk[p] = "ex"
        /\ pc[q] = "i_rlock" /\ res[q] = res[p] /\ lk[q] = "none"
        /\ content[res[p]] = <<"b", "c">>

\* C16 (overwrite replaces the whole hint): when LockWithHint(r, h2) has
\* written and returns nil, the file of r holds exactly h2, whatever hint it
\* held before and without an Unlock in between.
C16_OverwriteWhole ==
    \A p \in Procs :
        (pc[p] = "close" /\ op[p] = "LockWithHint" /\ retErr[p] = Nil)
            => content[res[p]] = arg[p]

\* The shorter hint "a" has replaced "bc", which a reader waiting for the
\* lock saw stored when its call began.
C16_Witness ==
    \E p, q \in Procs :
        /\ pc[p] = "close" /\ op[p] = "LockWithHint" /\ retErr[p] = Nil
        /\ arg[p] = <<"a">> /\ content[res[p]] = <<"a">>
        /\ op[q] = "IsLocked" /\ res[q] = res[p] /\ pc[q] = "i_rlock"
        /\ valid[q] = {<<"b", "c">>, <<"a">>}

\* C17 (early failures leave the hint untouched): a step of a call changes
\* the contents of a file only when the caller holds the exclusive lock,
\* and then only of the file of its own resource; a step at which MkdirAll,
\* the open or the lock fails returns the error and changes no contents.
C17_EarlyFailuresUntouched ==
    [][\A p \in Procs : StepOf(p) =>
          /\ content' # content
                => /\ lk[p] = "ex"
                   /\ \A r \in Resources \ {res[p]} : content'[r] = content[r]
          /\ (/\ pc[p] \in {"lwh_mkdir", "lwh_open", "lwh_lock", "u_open", "u_lock"}
              /\ faulted'[p])
                => /\ retErr'[p] \notin {Nil, "ENOENT"}
                   /\ pc'[p] \in {"close", "done"}
                   /\ content' = content]_vars

\* LockWithHint has failed at the lock and returned beside the stored hint.
C17_Witness ==
    \E p \in Procs :
        /\ pc[p] = "done" /\ op[p] = "LockWithHint" /\ retErr[p] = "EINTR"
        /\ arg[p] = <<"a">> /\ content[res[p]] = <<"b", "c">>

\* Caller p waits in flock for a lock that cannot be granted now.
Blocked(p) ==
    \/ pc[p] \in {"lwh_lock", "u_lock"} /\ ~CanLock(p, res[p])
    \/ pc[p] = "i_rlock" /\ ~CanReadLock(p, res[p])

\* C18 (deadlock freedom and termination): a caller that waits for a lock
\* holds none, whenever some call is pending one pending caller is not
\* blocked, and with a fair lock every call eventually returns.
C18_DeadlockFreeTermination ==
    /\ [](\A p \in Procs : Blocked(p) => lk[p] = "none")
    /\ []((\E p \in Procs : pc[p] # "idle")
              => \E p \in Procs : pc[p] # "idle" /\ ~Blocked(p))
    /\ \A p \in Procs : (pc[p] # "idle") ~> (pc[p] = "done")

\* Two callers wait for the lock of a resource that a third one holds.
C18_Witness ==
    \E p, q, h \in Procs :
        /\ p # q
        /\ Blocked(p) /\ Blocked(q)
        /\ pc[p] = "lwh_lock" /\ pc[q] = "i_rlock"
        /\ lk[h] = "ex" /\ res[h] = res[p] /\ res[h] = res[q]

\* C19 (per-resource independence): a step of a call on r leaves the file,
\* the contents and the abstract state of every other resource as they
\* were, and a caller waits for a lock only while another caller holds a
\* lock of the same resource.
C19_PerResourceIndependence ==
    /\ [][\A p \in Procs : StepOf(p) =>
            \A r2 \in Resources \ {res[p], res'[p]} :
                /\ content'[r2] = content[r2]
                /\ exists'[r2] = exists[r2]
                /\ abs'[r2] = abs[r2]
                /\ \A q \in Procs : res[q] = r2 => lk'[q] = lk[q]]_vars
    /\ [](\A p \in Procs : Blocked(p) =>
            \E q \in Procs \ {p} : lk[q] # "none" /\ res[q] = res[p])

\* A reader of r1 has returned the hint of r1 while a writer of r2 holds
\* the exclusive lock of r2, whose file holds another hint.
C19_Witness ==
    \E p, q \in Procs :
        /\ Read(p) /\ res[p] = "r1" /\ retErr[p] = Nil /\ retHint[p] = <<"a">>
        /\ content["r1"] = <<"a">>
        /\ res[q] = "r2" /\ lk[q] = "ex" /\ op[q] = "LockWithHint"
        /\ pc[q] = "close" /\ content["r2"] = <<"b", "c">>

====
